---- MODULE Spec2Model ----
(***************************************************************************)
(* ContractTest (src/web3py/contract_functions.py): the nonce manager      *)
(* (get_nonce_lock, update_nonces) around a threading.Lock, and the        *)
(* scenario coroutines that build, sign and submit transactions.           *)
(*                                                                         *)
(* Coroutines run as tasks on asyncio event loops.  A loop is one OS       *)
(* thread: between two awaits a task runs alone on its loop (running), and *)
(* a task that blocks in threading.Lock.acquire() keeps its loop's thread, *)
(* so no other task of that loop can resume meanwhile.  Tasks on different *)
(* loops interleave statement by statement.                                *)
(***************************************************************************)
EXTENDS Integers, Sequences, FiniteSets, TLC

\* ---- bounds of the model
NTasks == 3
NLoops == 2
MaxScenarios == 2
MaxConcurrent == 2

\* ---- program constants
NAccounts == 3

Tasks == 1..NTasks
Loops == 1..NLoops
Accounts == 0..(NAccounts - 1)

NonceKinds == {"get_nonce_lock", "update_nonces"}

VARIABLES
    txcount,    \* the node: transaction count of each account (get_transaction_count)
    nonces,     \* self.nonces
    lock,       \* self.lock: 0 when free, else the task holding it
    running,    \* per event loop: the task executing between two awaits, 0 when the loop is idle
    pc,         \* per task: position in its coroutine
    kind,       \* per task: the coroutine it runs
    idx,        \* per task: the idx argument of get_nonce_lock
    loop,       \* per task: the event loop it was dispatched on
    tmp,        \* per task: local tmp of get_nonce_lock / loop variable i of update_nonces
    ret,        \* per task: value returned by get_nonce_lock (-1: none)
    epoch,      \* history: number of update_nonces calls that have taken the lock
    handed,     \* history: set of [task, idx, value, epoch] returned by get_nonce_lock
    contended,  \* history, per task: the lock was held when the task reached acquire()
    pool,       \* the node: pending transactions [from, nonce, task, pos] (task 0: nobody awaits it)
    step,       \* per scenario task: position in its script (1-based)
    txnonce,    \* per scenario task: 'nonce' of the transaction being built or submitted
    rcpt,       \* per scenario task: status of the receipt of the awaited transaction (-1: none yet)
    statuses,   \* per scenario task: the local list statuses
    upres,      \* per scenario task: all_statuses_upload of another_file_upload_read
    result,     \* per scenario task: the returned all_statuses (meaningful once pc is "done")
    submitted,  \* history, per scenario task: the [pos, from, nonce, fresh] handed to sign_send_transaction
    stlog,      \* history, per scenario task: the values sign_send_transaction returned
    last,       \* history, per scenario task: how the latest sign_send_transaction call ended
    runs,       \* history: number of scenarios run one after another so far
    accounts,   \* self.accounts: the address at each account index
    private_keys, \* self.private_keys: the key at each account index
    atlock      \* history, per task: self.nonces as get_nonce_lock found it on taking the lock

nonceVars == <<nonces, lock, tmp, ret, epoch, handed, contended, idx, atlock>>
keyVars == <<accounts, private_keys>>
scenVars == <<step, txnonce, rcpt, statuses, upres, result, submitted, stlog, last, runs>>
chainVars == <<txcount, pool>>
vars == <<txcount, nonces, lock, running, pc, kind, idx, loop, tmp, ret, epoch, handed, contended,
          pool, step, txnonce, rcpt, statuses, upres, result, submitted, stlog, last, runs,
          accounts, private_keys, atlock>>

NoCall == [exc |-> "none", status |-> -1, raised |-> FALSE, value |-> -1]

\* get_settings(blockchain): three addresses and the key of each, index by index.
Addresses == <<"address0", "address1", "address2">>
Keys == <<"key0", "key1", "key2">>

\* __init__: lock free, nonces[idx] = get_transaction_count(accounts[idx]) for idx in range(3)
Init ==
    /\ txcount \in [Accounts -> {0}]
    /\ nonces = txcount
    /\ lock = 0
    /\ running = [l \in Loops |-> 0]
    /\ pc = [t \in Tasks |-> "idle"]
    /\ kind = [t \in Tasks |-> "none"]
    /\ idx = [t \in Tasks |-> 0]
    /\ loop = [t \in Tasks |-> 1]
    /\ tmp = [t \in Tasks |-> 0]
    /\ ret = [t \in Tasks |-> -1]
    /\ epoch = 0
    /\ handed = {}
    /\ contended = [t \in Tasks |-> FALSE]
    /\ pool = {}
    /\ step = [t \in Tasks |-> 0]
    /\ txnonce = [t \in Tasks |-> 0]
    /\ rcpt = [t \in Tasks |-> -1]
    /\ statuses = [t \in Tasks |-> <<>>]
    /\ upres = [t \in Tasks |-> TRUE]
    /\ result = [t \in Tasks |-> FALSE]
    /\ submitted = [t \in Tasks |-> <<>>]
    /\ stlog = [t \in Tasks |-> <<>>]
    /\ last = [t \in Tasks |-> NoCall]
    /\ runs = 0
    /\ accounts = [i \in Accounts |-> Addresses[i + 1]]
    /\ private_keys = [i \in Accounts |-> Keys[i + 1]]
    /\ atlock = [t \in Tasks |-> nonces]

\* The loop of task t is idle: a task suspended in an await can be resumed.
LoopIdle(t) == running[loop[t]] = 0

\* A lock that excludes nobody.
CanAcquireAlways == TRUE

\* threading.Lock.acquire() with no timeout: returns only when the lock is free.
CanAcquire == lock = 0

\* Tasks and loops are interchangeable, so they are taken in order: task t is
\* dispatched after task t-1, on a loop already in use or on the next unused one.
CanDispatch(t, l) ==
    /\ pc[t] = "idle"
    /\ t > 1 => pc[t - 1] # "idle"
    /\ l > 1 => \E u \in Tasks : pc[u] # "idle" /\ loop[u] = l - 1

\* A caller creates the coroutine as a task on event loop l and the loop runs it
\* up to its first statement, self.lock.acquire().  (A task created while its
\* loop is busy starts when the loop gets to it: that is this step, later.)
DispatchNonce(t, k, i, l) ==
    /\ CanDispatch(t, l)
    /\ running[l] = 0
    /\ pc' = [pc EXCEPT ![t] = "acquire"]
    /\ kind' = [kind EXCEPT ![t] = k]
    /\ idx' = [idx EXCEPT ![t] = IF k = "get_nonce_lock" THEN i ELSE 0]
    /\ loop' = [loop EXCEPT ![t] = l]
    /\ running' = [running EXCEPT ![l] = t]
    /\ contended' = [contended EXCEPT ![t] = (lock # 0)]
    /\ UNCHANGED <<nonces, lock, tmp, ret, epoch, handed, chainVars, scenVars, keyVars, atlock>>

\* get_nonce_lock: self.lock.acquire(); await asyncio.sleep(.1) suspends the task
\* with the lock held and gives the loop back.
GnlAcquire(t) ==
    /\ pc[t] = "acquire"
    /\ kind[t] = "get_nonce_lock"
    /\ running[loop[t]] = t
    /\ CanAcquire
    /\ lock' = t
    /\ atlock' = [atlock EXCEPT ![t] = nonces]
    /\ pc' = [pc EXCEPT ![t] = "sleep"]
    /\ running' = [running EXCEPT ![loop[t]] = 0]
    /\ UNCHANGED <<nonces, kind, idx, loop, tmp, ret, epoch, handed, contended, chainVars, scenVars, keyVars>>

\* The sleep is over and the loop resumes the task: tmp = self.nonces[idx]
GnlRead(t) ==
    /\ pc[t] = "sleep"
    /\ LoopIdle(t)
    /\ running' = [running EXCEPT ![loop[t]] = t]
    /\ tmp' = [tmp EXCEPT ![t] = nonces[idx[t]]]
    /\ pc' = [pc EXCEPT ![t] = "incr"]
    /\ UNCHANGED <<nonces, lock, kind, idx, loop, ret, epoch, handed, contended, chainVars, scenVars, keyVars, atlock>>

\* The counter written back unchanged.
NotIncremented(n) == n

\* self.nonces[idx] + 1
Incremented(n) == n + 1

\* self.nonces[idx] = self.nonces[idx] + 1
GnlIncr(t) ==
    /\ pc[t] = "incr"
    /\ nonces' = [nonces EXCEPT ![idx[t]] = Incremented(nonces[idx[t]])]
    /\ pc' = [pc EXCEPT ![t] = "release"]
    /\ UNCHANGED <<lock, running, kind, idx, loop, tmp, ret, epoch, handed, contended, chainVars, scenVars, keyVars, atlock>>

\* The counter as it stands after the increment.
ReturnedAfterIncrement(t) == nonces[idx[t]]

\* return tmp
Returned(t) == tmp[t]

\* self.lock.release(); return tmp
GnlRelease(t) ==
    /\ pc[t] = "release"
    /\ kind[t] = "get_nonce_lock"
    /\ lock' = 0
    /\ ret' = [ret EXCEPT ![t] = Returned(t)]
    /\ handed' = handed \cup {[task |-> t, idx |-> idx[t], value |-> Returned(t), epoch |-> epoch]}
    /\ pc' = [pc EXCEPT ![t] = "done"]
    /\ running' = [running EXCEPT ![loop[t]] = 0]
    /\ UNCHANGED <<nonces, kind, idx, loop, tmp, epoch, contended, chainVars, scenVars, keyVars, atlock>>

\* update_nonces: self.lock.acquire(); the first await of get_transaction_count
\* suspends the task with the lock held.
UpdAcquire(t) ==
    /\ pc[t] = "acquire"
    /\ kind[t] = "update_nonces"
    /\ running[loop[t]] = t
    /\ CanAcquire
    /\ lock' = t
    /\ epoch' = epoch + 1
    /\ tmp' = [tmp EXCEPT ![t] = 0]
    /\ pc' = [pc EXCEPT ![t] = "refresh"]
    /\ running' = [running EXCEPT ![loop[t]] = 0]
    /\ UNCHANGED <<nonces, kind, idx, loop, ret, handed, contended, chainVars, scenVars, keyVars, atlock>>

\* The node answers and the loop resumes the task:
\* self.nonces[i] = <transaction count of accounts[i]>; then the next await,
\* or after the third one self.lock.release().
UpdRefresh(t) ==
    /\ pc[t] = "refresh"
    /\ LoopIdle(t)
    /\ nonces' = [nonces EXCEPT ![tmp[t]] = txcount[tmp[t]]]
    /\ IF tmp[t] + 1 < NAccounts
         THEN /\ tmp' = [tmp EXCEPT ![t] = tmp[t] + 1]
              /\ UNCHANGED <<lock, pc>>
         ELSE /\ lock' = 0
              /\ pc' = [pc EXCEPT ![t] = "done"]
              /\ UNCHANGED tmp
    /\ UNCHANGED <<running, kind, idx, loop, ret, epoch, handed, contended, chainVars, scenVars, keyVars, atlock>>

\* The transaction-count lookup raises (the node is unreachable): the exception
\* leaves update_nonces before self.lock.release().
UpdRaise(t) ==
    /\ pc[t] = "refresh"
    /\ LoopIdle(t)
    /\ pc' = [pc EXCEPT ![t] = "raised"]
    /\ UNCHANGED <<nonces, lock, running, kind, idx, loop, tmp, ret, epoch, handed, contended, chainVars, scenVars, keyVars, atlock>>

NonceStep(t) ==
    \/ GnlAcquire(t)
    \/ GnlRead(t)
    \/ GnlIncr(t)
    \/ GnlRelease(t)
    \/ UpdAcquire(t)
    \/ UpdRefresh(t)
    \/ UpdRaise(t)

NextNonce ==
    \/ \E t \in Tasks, k \in NonceKinds, i \in Accounts, l \in Loops : DispatchNonce(t, k, i, l)
    \/ \E t \in Tasks : NonceStep(t)

SpecNonce == Init /\ [][NextNonce]_vars

\* ---------------------------------------------------------------- scenarios

ScenarioKinds == {"cloud_sla_creation_activation", "sequence_upload", "sequence_read",
                  "sequence_file", "delete", "read_deny_lost_file_check",
                  "another_file_upload_read"}

\* The account index i of each transaction of a scenario, in program order:
\* 'from': self.accounts[i], 'nonce': await self.get_nonce(i), self.private_keys[i].
SeqScript(k) ==
    CASE k = "cloud_sla_creation_activation" -> <<0, 1>>     \* createChild, Deposit
      [] k = "sequence_upload" -> <<1, 0, 0>>                \* UploadRequest, UploadRequestAck, UploadTransferAck
      [] k = "sequence_read" -> <<1, 0>>                     \* ReadRequest, ReadRequestAck
      [] k = "sequence_file" -> <<1, 2, 1>>                  \* FileHashRequest, DigestStore, FileCheck
      [] k = "delete" -> <<1, 0>>                            \* DeleteRequest, Delete
      [] k = "read_deny_lost_file_check" -> <<1, 0>>         \* ReadRequest, ReadRequestDeny
      [] OTHER -> <<>>

\* another_file_upload_read awaits sequence_upload, then sequence_read.
Script(k) ==
    IF k = "another_file_upload_read"
      THEN SeqScript("sequence_upload") \o SeqScript("sequence_read")
      ELSE SeqScript(k)

\* Every transaction signed with the first key.
KeySeqScriptFirstKey(k) == [n \in 1..Len(SeqScript(k)) |-> 0]

\* The index i of self.private_keys[i] handed to sign_send_transaction with each
\* transaction of a scenario, in program order.
KeySeqScript(k) ==
    CASE k = "cloud_sla_creation_activation" -> <<0, 1>>
      [] k = "sequence_upload" -> <<1, 0, 0>>
      [] k = "sequence_read" -> <<1, 0>>
      [] k = "sequence_file" -> <<1, 2, 1>>
      [] k = "delete" -> <<1, 0>>
      [] k = "read_deny_lost_file_check" -> <<1, 0>>
      [] OTHER -> <<>>

KeyScript(k) ==
    IF k = "another_file_upload_read"
      THEN KeySeqScript("sequence_upload") \o KeySeqScript("sequence_read")
      ELSE KeySeqScript(k)

\* The index i of  await self.get_nonce(i)  in each transaction of a scenario, in
\* program order.
NonceSeqScript(k) ==
    CASE k = "cloud_sla_creation_activation" -> <<0, 1>>
      [] k = "sequence_upload" -> <<1, 0, 0>>
      [] k = "sequence_read" -> <<1, 0>>
      [] k = "sequence_file" -> <<1, 2, 1>>
      [] k = "delete" -> <<1, 0>>
      [] k = "read_deny_lost_file_check" -> <<1, 0>>
      [] OTHER -> <<>>

NonceScript(k) ==
    IF k = "another_file_upload_read"
      THEN NonceSeqScript("sequence_upload") \o NonceSeqScript("sequence_read")
      ELSE NonceSeqScript(k)

\* 'gasPrice': 0 in every transaction dict.
GasPrice == 0

\* The position at which the first awaited sequence of a scenario returns
\* (0: the scenario is one sequence).
Boundary(k) ==
    IF k = "another_file_upload_read" THEN Len(SeqScript("sequence_upload")) ELSE 0

\* utility.check_statuses: the logical AND of the step statuses.
check_statuses(sts) == \A n \in 1..Len(sts) : sts[n] = 1

\* statuses.append(await self.sign_send_transaction(...))
AppendStatus(sts, v) == Append(sts, v)

\* Only the last awaited sequence counts.
ScenarioResultLastOnly(k, up, sts) == check_statuses(sts)

\* What a scenario returns: all_statuses, or for another_file_upload_read
\* all_statuses_upload and all_statuses_read.
ScenarioResult(k, up, sts) ==
    IF k = "another_file_upload_read" THEN up /\ check_statuses(sts) ELSE check_statuses(sts)

\* The exceptions a call into the client library can raise: the two the code
\* names, and any other kind (a connection error, a type error).
Excs == {"ValueError", "TimeExhausted", "Other"}

\* A handler that names ValueError only.
CaughtValueErrorOnly(e) == e = "ValueError"

\* except (ValueError, TimeExhausted) as e
Caught(e) == e \in {"ValueError", "TimeExhausted"}

\* A failed step is submitted again.
NextStepRetry(n, v) == IF v = 0 THEN n ELSE n + 1

\* The position of the scenario after a step whose submission returned v:
\* the next statement, whatever v is.
NextStep(n, v) == n + 1

\* The submission is not awaited: the scenario goes on to its next lookup.
PcAfterSendNoAwait == "nonce"

\* Where the scenario stands once send_raw_transaction accepted the transaction:
\* in  await ...wait_for_transaction_receipt(tx_hash), inside the awaited
\* sign_send_transaction.
PcAfterSend == "wait"

\* Concurrent scenario tasks are interchangeable and a dispatched task that has
\* not taken a step yet changes nothing, so they are taken in the order of
\* their kinds.
KindOrder == <<"cloud_sla_creation_activation", "sequence_upload", "sequence_read",
               "sequence_file", "delete", "read_deny_lost_file_check",
               "another_file_upload_read">>
KindRank(k) == CHOOSE n \in 1..Len(KindOrder) : KindOrder[n] = k

\* A caller creates a scenario coroutine as a task, beside the ones in progress,
\* and its loop runs it up to its first  await self.get_nonce(i).  Scenarios take
\* no lock and never hold their loop's thread, so the loop they run on does not
\* matter to them.
DispatchScenario(t, k) ==
    /\ CanDispatch(t, 1)
    /\ t <= MaxConcurrent
    /\ t > 1 => KindRank(kind[t - 1]) <= KindRank(k)
    /\ pc' = [pc EXCEPT ![t] = "nonce"]
    /\ kind' = [kind EXCEPT ![t] = k]
    /\ step' = [step EXCEPT ![t] = 1]
    /\ UNCHANGED <<running, loop, nonceVars, keyVars, chainVars, txnonce, rcpt, statuses, upres, result,
                   submitted, stlog, last, runs>>

\* A caller awaits scenarios one after the other: with no call in progress it
\* calls the next one, whose locals start afresh.
RunScenario(k) ==
    /\ \A u \in Tasks : pc[u] \in {"idle", "done", "raised"}
    /\ runs < MaxScenarios
    /\ runs' = runs + 1
    /\ pc' = [pc EXCEPT ![1] = "nonce"]
    /\ kind' = [kind EXCEPT ![1] = k]
    /\ step' = [step EXCEPT ![1] = 1]
    /\ statuses' = [statuses EXCEPT ![1] = <<>>]
    /\ upres' = [upres EXCEPT ![1] = TRUE]
    /\ result' = [result EXCEPT ![1] = FALSE]
    /\ submitted' = [submitted EXCEPT ![1] = <<>>]
    /\ stlog' = [stlog EXCEPT ![1] = <<>>]
    /\ last' = [last EXCEPT ![1] = NoCall]
    /\ UNCHANGED <<running, loop, nonceVars, keyVars, chainVars, txnonce, rcpt>>

\* sign_send_transaction ends for task t: with exception e raised inside the try
\* ("none": no exception, and the receipt's status is s).  A caught exception
\* returns 0, no exception returns tx_receipt['status'], any other exception
\* leaves sign_send_transaction and the scenario awaiting it.  On a return the
\* scenario appends the value and goes on to its next statement; after the last
\* one it returns check_statuses(statuses).
SignSendEnds(t, e, s) ==
    LET k == kind[t]
        v == IF e = "none" THEN s ELSE 0
        sts == AppendStatus(statuses[t], v)
        n == NextStep(step[t], v)
    IN  /\ txnonce' = [txnonce EXCEPT ![t] = 0]
        /\ rcpt' = [rcpt EXCEPT ![t] = -1]
        /\ IF e # "none" /\ ~Caught(e)
          THEN /\ pc' = [pc EXCEPT ![t] = "raised"]
               /\ last' = [last EXCEPT ![t] = [exc |-> e, status |-> s, raised |-> TRUE, value |-> -1]]
               /\ UNCHANGED <<step, statuses, upres, result, stlog>>
          ELSE /\ last' = [last EXCEPT ![t] = [exc |-> e, status |-> s, raised |-> FALSE, value |-> v]]
               /\ stlog' = [stlog EXCEPT ![t] = Append(@, v)]
               /\ IF n <= Len(Script(k))
                    THEN /\ pc' = [pc EXCEPT ![t] = "nonce"]
                         /\ step' = [step EXCEPT ![t] = n]
                         /\ IF step[t] = Boundary(k)
                              THEN /\ upres' = [upres EXCEPT ![t] = check_statuses(sts)]
                                   /\ statuses' = [statuses EXCEPT ![t] = <<>>]
                              ELSE /\ statuses' = [statuses EXCEPT ![t] = sts]
                                   /\ UNCHANGED upres
                         /\ UNCHANGED result
                    ELSE /\ pc' = [pc EXCEPT ![t] = "done"]
                         /\ statuses' = [statuses EXCEPT ![t] = sts]
                         /\ result' = [result EXCEPT ![t] = ScenarioResult(k, upres[t], sts)]
                         /\ UNCHANGED <<step, upres>>

\* The account of the transaction task t is at.
From(t) == Script(kind[t])[step[t]]

\* The account index of get_nonce and of private_keys for the transaction task t
\* is at.
NonceIdx(t) == NonceScript(kind[t])[step[t]]
KeyIdx(t) == KeyScript(kind[t])[step[t]]

\* The transaction task t builds now and the key it hands over with it: its
\* nonce is the transaction count the node answers for accounts[i] of get_nonce(i).
\* fresh: no transaction of that sender with that nonce is pending in the node (a
\* mined one has a lower nonce).  sender, lookup, key and gasPrice are the
\* 'from' address, the address whose count was looked up, the signing key and
\* the 'gasPrice' of the transaction.
BuiltTx(t) ==
    [pos |-> step[t], from |-> From(t), nonce |-> txcount[NonceIdx(t)],
     fresh |-> ~ \E p \in pool : p.from = From(t) /\ p.nonce = txcount[NonceIdx(t)],
     sender |-> accounts[From(t)], lookup |-> accounts[NonceIdx(t)],
     key |-> private_keys[KeyIdx(t)], gasPrice |-> GasPrice]

\* The node answers get_transaction_count(accounts[i]); the task builds the
\* transaction with that nonce and enters sign_send_transaction(tx, pk), which
\* signs it and sends it raw.  The node takes it into its pool and the task goes
\* on to  await wait_for_transaction_receipt(tx_hash).
Submit(t) ==
    /\ pc[t] = "nonce"
    /\ txnonce' = [txnonce EXCEPT ![t] = BuiltTx(t).nonce]
    /\ submitted' = [submitted EXCEPT ![t] = Append(@, BuiltTx(t))]
    /\ pool' = pool \cup {[from |-> From(t), nonce |-> BuiltTx(t).nonce, task |-> t, pos |-> step[t]]}
    /\ pc' = [pc EXCEPT ![t] = PcAfterSend]
    /\ UNCHANGED <<running, kind, loop, nonceVars, keyVars, txcount, step, rcpt, statuses, upres,
                   result, stlog, last, runs>>

\* The same, but sign_transaction or send_raw_transaction raises: a ValueError
\* (a malformed transaction, a transaction the node rejects, such as one whose
\* nonce is no longer the account's), or another failure of the call.
SubmitFails(t, e) ==
    /\ pc[t] = "nonce"
    /\ e \in {"ValueError", "Other"}
    /\ submitted' = [submitted EXCEPT ![t] = Append(@, BuiltTx(t))]
    /\ SignSendEnds(t, e, -1)
    /\ UNCHANGED <<running, kind, loop, nonceVars, keyVars, chainVars, runs>>

\* The chain mines a pending transaction whose nonce is its sender's transaction
\* count; the receipt's status is s (0: reverted).  Pending transactions of that
\* sender with the same nonce can no longer be mined and leave the pool.
Mine(tx, s) ==
    /\ tx \in pool
    /\ tx.nonce = txcount[tx.from]
    /\ txcount' = [txcount EXCEPT ![tx.from] = @ + 1]
    /\ pool' = {p \in pool : ~(p.from = tx.from /\ p.nonce = tx.nonce)}
    /\ rcpt' = IF tx.task \in Tasks
                 THEN [rcpt EXCEPT ![tx.task] = s]
                 ELSE rcpt
    /\ UNCHANGED <<running, pc, kind, loop, nonceVars, keyVars, step, txnonce, statuses, upres, result,
                   submitted, stlog, last, runs>>

\* wait_for_transaction_receipt returns the receipt: return tx_receipt['status']
Receipt(t) ==
    /\ pc[t] = "wait"
    /\ rcpt[t] # -1
    /\ SignSendEnds(t, "none", rcpt[t])
    /\ UNCHANGED <<running, kind, loop, nonceVars, keyVars, chainVars, submitted, runs>>

\* The pool once task t has stopped waiting: its transaction, if still pending,
\* stays in the node with nobody awaiting it.
Abandoned(t) ==
    {IF p.task = t THEN [p EXCEPT !.task = 0, !.pos = 0] ELSE p : p \in pool}

\* wait_for_transaction_receipt raises: TimeExhausted while there is no receipt
\* yet, or another failure of the call.
WaitFails(t, e) ==
    /\ pc[t] = "wait"
    /\ e \in {"TimeExhausted", "Other"}
    /\ e = "TimeExhausted" => rcpt[t] = -1
    /\ SignSendEnds(t, e, -1)
    /\ pool' = Abandoned(t)
    /\ UNCHANGED <<running, kind, loop, nonceVars, keyVars, txcount, submitted, runs>>

ScenarioStep(t) ==
    \/ Submit(t)
    \/ \E e \in {"ValueError", "Other"} : SubmitFails(t, e)
    \/ Receipt(t)
    \/ \E e \in {"TimeExhausted", "Other"} : WaitFails(t, e)

ChainStep == \E tx \in pool, s \in {0, 1} : Mine(tx, s)

\* Scenarios of any kind, awaited one after the other.
NextScenario ==
    \/ \E k \in ScenarioKinds : RunScenario(k)
    \/ \E t \in Tasks : ScenarioStep(t)
    \/ ChainStep

SpecScenario == Init /\ [][NextScenario]_vars

\* The single-sequence scenarios, dispatched concurrently.
ConcurrentKinds == ScenarioKinds \ {"another_file_upload_read"}

NextConcurrent ==
    \/ \E t \in Tasks, k \in ConcurrentKinds : DispatchScenario(t, k)
    \/ \E t \in Tasks : ScenarioStep(t)
    \/ ChainStep

SpecConcurrent == Init /\ [][NextConcurrent]_vars

\* ------------------------------------------------------------------ claims

\* Task t is between self.lock.acquire() and self.lock.release().
InCritical(t) == pc[t] \in {"sleep", "incr", "release", "refresh"}

\* C1: get_nonce_lock calls on the same account index with no update_nonces call
\* in between (the same epoch) return pairwise distinct values.
C1_DistinctNonces ==
    \A h1, h2 \in handed :
        (h1.task # h2.task /\ h1.idx = h2.idx /\ h1.epoch = h2.epoch) => h1.value # h2.value

\* Two calls on one index have returned in one epoch, the second having found the
\* lock held when it reached acquire(): it got the next value.
C1_Witness ==
    \E h1, h2 \in handed :
        /\ h1.task # h2.task /\ h1.idx = h2.idx /\ h1.epoch = h2.epoch
        /\ contended[h2.task]
        /\ h2.value = h1.value + 1

\* C2: calls dispatched concurrently all complete: once no call can take a step,
\* every dispatched call has returned and the lock is free.  (Calls that an
\* exception ended are left out: the claim is about the delay and the lock.)
NonceProgress == \E t \in Tasks : NonceStep(t)
C2_EveryCallCompletes ==
    ((\A t \in Tasks : pc[t] # "raised") /\ ~ ENABLED NonceProgress)
        => (lock = 0 /\ \A t \in Tasks : pc[t] \in {"idle", "done"})

\* C7: at most one task is between acquire and release, it is the task the lock
\* records, and nobody writes nonces[idx] between its read and its increment.
C7_MutualExclusion ==
    /\ Cardinality({t \in Tasks : InCritical(t)}) <= 1
    /\ \A t \in Tasks : InCritical(t) => lock = t
    /\ \A t \in Tasks : pc[t] = "incr" => nonces[idx[t]] = tmp[t]

\* One task is about to increment while another, on another loop, is blocked in
\* acquire().
C7_Witness ==
    \E a, b \in Tasks :
        /\ pc[a] = "incr" /\ pc[b] = "acquire" /\ running[loop[b]] = b
        /\ loop[a] # loop[b]

\* C10: nonces[idx] never decreases.
C10_NoncesNeverDecrease == [][\A a \in Accounts : nonces'[a] >= nonces[a]]_vars

\* C3: no two transactions of the same account carry the same nonce: a
\* transaction handed to sign_send_transaction never carries the nonce of a
\* transaction of its sender that the node has already taken.
C3_NoNonceReuse ==
    \A t \in Tasks : \A n \in 1..Len(submitted[t]) : submitted[t][n].fresh

\* C4: when no operation is in progress, nonces[idx] is the transaction count of
\* accounts[idx].
C4_NonceIsTxCount ==
    (\A t \in Tasks : pc[t] \in {"idle", "done"}) => \A a \in Accounts : nonces[a] = txcount[a]

\* C5 as claimed: sign_send_transaction raises nothing; it returns 0 on a
\* ValueError or a TimeExhausted and the receipt's status otherwise.
C5_NoExceptionEscapes ==
    \A t \in Tasks :
        /\ ~ last[t].raised
        /\ last[t].value = IF Caught(last[t].exc) THEN 0 ELSE last[t].status

\* C5 as amended: a ValueError or a TimeExhausted raised while signing, sending
\* or waiting makes sign_send_transaction return 0; with no exception it returns
\* the receipt's status; an exception of any other kind propagates to the caller.
C5_CaughtKindsReturnZero ==
    \A t \in Tasks :
        /\ last[t].exc \in {"ValueError", "TimeExhausted"} => (~ last[t].raised /\ last[t].value = 0)
        /\ last[t].exc = "none" => (~ last[t].raised /\ last[t].value = last[t].status)
        /\ last[t].exc = "Other" => (last[t].raised /\ pc[t] = "raised")
        /\ pc[t] = "raised" => last[t].raised

\* A receipt wait timed out and the call returned 0 to a scenario that goes on.
C5_Witness ==
    \E t \in Tasks :
        /\ last[t].exc = "TimeExhausted" /\ last[t].value = 0
        /\ pc[t] = "nonce" /\ step[t] = 2

\* C6: a scenario's result is true exactly when every value sign_send_transaction
\* returned to it is 1, and it has one value per scripted transaction.
C6_ResultIsAndOfStatuses ==
    \A t \in Tasks :
        (pc[t] = "done" /\ kind[t] \in ScenarioKinds) =>
            /\ Len(stlog[t]) = Len(Script(kind[t]))
            /\ result[t] <=> (\A n \in 1..Len(stlog[t]) : stlog[t][n] = 1)

\* another_file_upload_read has returned false because of a single status 0, in
\* the upload sequence.
C6_Witness ==
    \E t \in Tasks :
        /\ pc[t] = "done" /\ kind[t] = "another_file_upload_read"
        /\ ~ result[t]
        /\ stlog[t] = <<1, 0, 1, 1, 1>>

\* C8: a scenario has at most one sign_send_transaction call entered and not
\* ended, and only inside it (pc "wait"); at a nonce lookup every call it
\* entered has ended, and the step it looks up follows them.
CallsEntered(t) == Len(submitted[t])
CallsEnded(t) == Len(stlog[t]) + (IF pc[t] = "raised" THEN 1 ELSE 0)
C9_NoRetryNoAbort ==
    \A t \in Tasks :
        kind[t] \in ScenarioKinds =>
            /\ Len(submitted[t]) <= Len(Script(kind[t]))
            /\ \A n \in 1..Len(submitted[t]) :
                  submitted[t][n].pos = n /\ submitted[t][n].from = Script(kind[t])[n]
            /\ pc[t] = "done" => Len(submitted[t]) = Len(Script(kind[t]))
            /\ pc[t] = "nonce" => step[t] = Len(submitted[t]) + 1
            /\ pc[t] = "wait" => step[t] = Len(submitted[t])

\* cloud_sla_creation_activation returned after createChild got status 0: the
\* Deposit was still submitted, once.
C9_Witness ==
    \E t \in Tasks :
        /\ pc[t] = "done" /\ kind[t] = "cloud_sla_creation_activation"
        /\ stlog[t][1] = 0
        /\ Len(submitted[t]) = 2 /\ submitted[t][2].from = 1

\* The get_nonce_lock calls made so far on account index i.
GnlCalls(i) == {t \in Tasks : pc[t] # "idle" /\ kind[t] = "get_nonce_lock" /\ idx[t] = i}

\* What the calls made so far produce when get_nonce_lock has no delay: the call
\* then has no suspension point, so each call runs from acquire() to release()
\* in one piece, one after the other: every call returns, n calls on an index
\* return the n values from the initial one on, and leave the counter n higher.
NoDelayOutcome ==
    /\ \A t \in Tasks : pc[t] \in {"idle", "done"}
    /\ \A i \in Accounts :
          /\ {ret[t] : t \in GnlCalls(i)} = txcount[i]..(txcount[i] + Cardinality(GnlCalls(i)) - 1)
          /\ nonces[i] = txcount[i] + Cardinality(GnlCalls(i))

\* C11: the delay inside get_nonce_lock changes no outcome: once concurrent
\* get_nonce_lock calls can take no more steps, they have all returned, with the
\* set of returned nonces and the final nonces table of the version without delay.
C11_DelayHasNoEffect ==
    ((\A t \in Tasks : pc[t] # "idle" => kind[t] = "get_nonce_lock") /\ ~ ENABLED NonceProgress)
        => NoDelayOutcome

\* C12: the lock is never leaked: with no get_nonce_lock or update_nonces call in
\* progress (each one not called, returned, or ended by an exception) the lock
\* is free.
C12_LockNeverLeaked ==
    (\A t \in Tasks : pc[t] \in {"idle", "done", "raised"}) => lock = 0

\* C13: a get_nonce_lock(idx) call changes nothing but nonces[idx]: from taking
\* the lock to its increment the table is as it found it, at release it differs
\* by nonces[idx] being one greater, and the call returns the value nonces[idx]
\* had on taking the lock; accounts and private_keys stay as __init__ set them;
\* with no update_nonces, nonces[idx] is its initial value plus the number of
\* calls on idx that have incremented it.
C13_FrameOfGetNonceLock ==
    /\ accounts = [i \in Accounts |-> Addresses[i + 1]]
    /\ private_keys = [i \in Accounts |-> Keys[i + 1]]
    /\ \A t \in Tasks :
          kind[t] = "get_nonce_lock" =>
              /\ pc[t] = "sleep" => nonces = atlock[t]
              /\ pc[t] = "incr" => (nonces = atlock[t] /\ tmp[t] = atlock[t][idx[t]])
              /\ pc[t] = "release" => nonces = [atlock[t] EXCEPT ![idx[t]] = @ + 1]
              /\ pc[t] = "done" => ret[t] = atlock[t][idx[t]]
    /\ epoch = 0 =>
          \A i \in Accounts :
              nonces[i] = txcount[i]
                            + Cardinality({t \in GnlCalls(i) : pc[t] \in {"release", "done"}})

\* Two calls on one index have returned with no update_nonces: the second got
\* the value the first left, the counter is two above its initial value and
\* another account's counter is where it was.
C13_Witness ==
    \E a, b \in Tasks : \E i, j \in Accounts :
        /\ a # b /\ i # j /\ epoch = 0
        /\ a \in GnlCalls(i) /\ b \in GnlCalls(i)
        /\ pc[a] = "done" /\ pc[b] = "done"
        /\ ret[a] = txcount[i] /\ ret[b] = txcount[i] + 1
        /\ nonces[i] = txcount[i] + 2
        /\ nonces[j] = txcount[j]

\* C14: every transaction a scenario hands to sign_send_transaction has gas price
\* zero, is signed with the private key at the index of its sender account, and
\* carries the nonce looked up for that same account.
C14_TxOfOneAccountIndex ==
    \A t \in Tasks : \A n \in 1..Len(submitted[t]) :
        LET tx == submitted[t][n]
        IN  /\ tx.gasPrice = 0
            /\ \E i \in Accounts :
                  /\ tx.sender = accounts[i]
                  /\ tx.key = private_keys[i]
                  /\ tx.lookup = accounts[i]

\* sequence_file has handed over its three transactions, the second of them
\* from accounts[2] with private_keys[2].
C14_Witness ==
    \E t \in Tasks :
        /\ kind[t] = "sequence_file" /\ Len(submitted[t]) = 3
        /\ submitted[t][2].sender = accounts[2] /\ submitted[t][2].key = private_keys[2]
        /\ submitted[t][3].sender = accounts[1] /\ submitted[t][3].key = private_keys[1]

====
